---- MODULE Spec2Model ----
(***************************************************************************)
(* Model of the chat panel of src/src/components/ChatInterface.tsx:        *)
(* the component state (messages, input, isLoading, currentConvId), the    *)
(* handleSend turn with its awaits as steps, the server-sent-events read   *)
(* loop over text chunks, and the backend rows the panel writes.           *)
(* Texts are TLA+ strings; JavaScript's 0-based string methods are         *)
(* modelled by the operators of the first section.                         *)
(***************************************************************************)
EXTENDS Integers, Sequences, FiniteSets, TLC

VARIABLES
    messages,          \* useState<Message[]>: the displayed transcript
    input,             \* useState(""): the textarea's text
    isLoading,         \* useState(false): the send latch
    currentConvId,     \* useState(conversationId)
    user,              \* supabase.auth.getUser(): the principal, or None
    dbConvs,           \* rows of chat_conversations
    dbMsgs,            \* rows of chat_messages
    toasts,            \* toast.error calls, in order
    logs,              \* number of console.error calls
    pc,                \* position of the handleSend in flight
    userMessage,       \* handleSend local
    newMessages,       \* handleSend local
    convId,            \* handleSend local
    assistantMessage,  \* handleSend local
    textBuffer,        \* handleSend local
    rest,              \* text of the response body not yet delivered
    sent,              \* history: the body the endpoint sent this turn
    lines,             \* history: lines sliced off textBuffer this turn
    accepted,          \* history: deltas appended to assistantMessage
    doneSeen,          \* history: a [DONE] payload was read this turn
    error,             \* message of the exception thrown inside the try
    dbMark,            \* history: Len(dbMsgs) when the turn began
    conversationId,    \* the conversationId prop the parent passes
    loads,             \* ids whose loadConversation awaits its select
    propChanges,       \* history: number of changes of the prop
    turn               \* history: number of sends that passed the guard

vars == <<messages, input, isLoading, currentConvId, user, dbConvs, dbMsgs,
          toasts, logs, pc, userMessage, newMessages, convId,
          assistantMessage, textBuffer, rest, sent, lines, accepted,
          doneSeen, error, dbMark, conversationId, loads, propChanges,
          turn>>

None == "<none>"

----------------------------------------------------------------------------
(* JavaScript string methods *)

LF == "\n"
CR == "\r"

CharAt(s, i) == SubSeq(s, i + 1, i + 1)

Slice(s, a, b) == SubSeq(s, a + 1, b)

SliceFrom(s, a) == SubSeq(s, a + 1, Len(s))

RECURSIVE IndexFrom(_, _, _)
IndexFrom(s, c, i) ==
    IF i >= Len(s) THEN -1
    ELSE IF CharAt(s, i) = c THEN i
    ELSE IndexFrom(s, c, i + 1)

IndexOf(s, c) == IndexFrom(s, c, 0)

StartsWith(s, p) == Len(s) >= Len(p) /\ SubSeq(s, 1, Len(p)) = p

EndsWith(s, p) ==
    Len(s) >= Len(p) /\ SubSeq(s, Len(s) - Len(p) + 1, Len(s)) = p

IsSpace(c) == c \in {" ", "\t", "\n", "\r"}

RECURSIVE TrimStart(_)
TrimStart(s) ==
    IF Len(s) > 0 /\ IsSpace(CharAt(s, 0)) THEN TrimStart(SliceFrom(s, 1))
    ELSE s

RECURSIVE TrimEnd(_)
TrimEnd(s) ==
    IF Len(s) > 0 /\ IsSpace(CharAt(s, Len(s) - 1))
    THEN TrimEnd(Slice(s, 0, Len(s) - 1))
    ELSE s

Trim(s) == TrimEnd(TrimStart(s))

Substring(s, a, b) ==
    LET hi == IF b > Len(s) THEN Len(s) ELSE b IN Slice(s, a, hi)

----------------------------------------------------------------------------
(* The response body: what the completion endpoint writes *)

DataPrefix == "data: "
DoneSentinel == "[DONE]"
JsonHead == "{\"choices\":[{\"delta\":{\"content\":\""
JsonTail == "\"}}]}"
JsonNoContent == "{\"choices\":[{\"delta\":{}}]}"
JsonBroken == "{\"choices\":[{\"del"

\* One frame of the body as text, without its line terminator.
FrameText(f) ==
    CASE f.k = "delta"   -> DataPrefix \o JsonHead \o f.c \o JsonTail
      [] f.k = "role"    -> DataPrefix \o JsonNoContent
      [] f.k = "done"    -> DataPrefix \o DoneSentinel
      [] f.k = "blank"   -> ""
      [] f.k = "comment" -> ": keepalive"
      [] f.k = "event"   -> "event: message"
      [] f.k = "bad"     -> DataPrefix \o JsonBroken

RECURSIVE Encode(_, _)
Encode(fs, eol) ==
    IF fs = <<>> THEN ""
    ELSE FrameText(Head(fs)) \o eol \o Encode(Tail(fs), eol)

Delta(c) == [k |-> "delta", c |-> c]
Frame(k) == [k |-> k, c |-> ""]

----------------------------------------------------------------------------
(* JSON.parse(jsonStr) followed by parsed.choices?.[0]?.delta?.content,    *)
(* for the payloads FrameText writes: ok = FALSE is the SyntaxError,       *)
(* content = "" is an absent or empty content field.                       *)

IsPlain(s) == \A i \in 0..(Len(s) - 1) : CharAt(s, i) \notin {"\"", "\\", LF, CR}

JsonParse(jsonStr) ==
    IF jsonStr = JsonNoContent THEN [ok |-> TRUE, content |-> ""]
    ELSE IF /\ Len(jsonStr) >= Len(JsonHead) + Len(JsonTail)
            /\ StartsWith(jsonStr, JsonHead)
            /\ EndsWith(jsonStr, JsonTail)
            /\ IsPlain(Slice(jsonStr, Len(JsonHead), Len(jsonStr) - Len(JsonTail)))
    THEN [ok |-> TRUE,
          content |-> Slice(jsonStr, Len(JsonHead), Len(jsonStr) - Len(JsonTail))]
    ELSE [ok |-> FALSE, content |-> ""]

----------------------------------------------------------------------------
(* The inner while loop of handleSend (lines 151-173) on the locals        *)
(* st = [buf, asst, msgs] and the history fields lines, accepted, done.    *)

AssistantMsg(c) == [role |-> "assistant", content |-> c]
UserMsg(c) == [role |-> "user", content |-> c]

\* Mutant: the delta is shown as a message of its own, added to the display.
AcceptDelta_Patch(st, nm, content) ==
    [st EXCEPT !.asst = st.asst \o content,
               !.msgs = Append(st.msgs, AssistantMsg(content)),
               !.accepted = Append(st.accepted, content)]

AcceptDelta(st, nm, content) ==
    [st EXCEPT !.asst = st.asst \o content,
               !.msgs = Append(nm, AssistantMsg(st.asst \o content)),
               !.accepted = Append(st.accepted, content)]

RECURSIVE ProcessLines(_, _)
ProcessLines(st, nm) ==
    LET newlineIndex == IndexOf(st.buf, LF) IN
    IF newlineIndex = -1 THEN st
    ELSE
      LET raw  == Slice(st.buf, 0, newlineIndex)
          tail == SliceFrom(st.buf, newlineIndex + 1)
          line == IF EndsWith(raw, CR) THEN Slice(raw, 0, Len(raw) - 1) ELSE raw
          st1  == [st EXCEPT !.buf = tail, !.lines = Append(st.lines, line)]
          jsonStr == Trim(SliceFrom(line, 6))
          parsed  == JsonParse(jsonStr)
      IN
      IF StartsWith(line, ":") \/ Trim(line) = "" THEN ProcessLines(st1, nm)
      ELSE IF ~StartsWith(line, DataPrefix) THEN ProcessLines(st1, nm)
      ELSE IF jsonStr = DoneSentinel THEN [st1 EXCEPT !.done = TRUE]
      ELSE IF ~parsed.ok THEN [st1 EXCEPT !.buf = line \o LF \o tail]
      ELSE IF parsed.content # ""
           THEN ProcessLines(AcceptDelta(st1, nm, parsed.content), nm)
           ELSE ProcessLines(st1, nm)

----------------------------------------------------------------------------
(* Bounds and input sets *)

MaxTurns == 2
MaxFrames == 2
MaxDeltas == 2
MaxInputLen == 54
PanelChunk == 50
MaxPropChanges == 1

TitleLimit == 50

RECURSIVE XS(_)
XS(n) == IF n = 0 THEN "" ELSE "x" \o XS(n - 1)

PanelInputs == {"What are my rights?", "  hi \n"}

TitleInputs ==
    {"Hello", "   ", XS(60)} \cup {XS(n) : n \in 1..MaxInputLen}
        \cup {" " \o XS(n) \o " " : n \in (TitleLimit - 1)..(TitleLimit + 1)}

Body(fs, eol, trailer) == [frames |-> fs, eol |-> eol, trailer |-> trailer]

\* N deltas followed by [DONE], N <= n.
DeltaSeqs(n) == UNION {[1..m -> {Delta("a"), Delta("b")}] : m \in 0..n}

WellFormedBodies ==
    {Body(ds \o <<Frame("done")>>, LF, "") : ds \in DeltaSeqs(MaxDeltas)}

\* Any order of a delta, the sentinel and a keepalive.
FrameKinds == {Delta("a"), Frame("done"), Frame("comment")}

FrameSeqs(n) == UNION {[1..m -> FrameKinds] : m \in 0..n}

MixedBodies == {Body(fs, LF, "") : fs \in FrameSeqs(MaxFrames)}

SampleBodies ==
    { Body(<<Delta("You have "), Frame("blank"),
             Delta("the right to remain silent."), Frame("blank"),
             Frame("done"), Frame("blank")>>, CR \o LF, ""),
      Body(<<Frame("role"), Delta("a"), Frame("event"), Delta("b"),
             Frame("done")>>, CR \o LF, ""),
      Body(<<Delta("a"), Frame("bad"), Delta("b"), Frame("done")>>, LF, ""),
      Body(<<Delta("a"), Delta("b")>>, LF, DataPrefix \o JsonHead \o "c") }

StreamBodies == WellFormedBodies \cup MixedBodies \cup SampleBodies

PanelBodies ==
    { Body(<<Delta("You have "), Delta("the right to remain silent."),
             Frame("done")>>, LF, ""),
      Body(<<Frame("role"), Frame("done")>>, LF, "") }

BodyText(b) == Encode(b.frames, b.eol) \o b.trailer

NoBody == Body(<<>>, LF, "")

ExistingConv == "c1"
Principal == "u1"

----------------------------------------------------------------------------
(* The component and its backend *)

\* Mutant: the ellipsis is added from 50 characters on.
Title_AtLimit(firstMessage) ==
    Substring(firstMessage, 0, TitleLimit)
        \o (IF Len(firstMessage) >= TitleLimit THEN "..." ELSE "")

Title(firstMessage) ==
    Substring(firstMessage, 0, TitleLimit)
        \o (IF Len(firstMessage) > TitleLimit THEN "..." ELSE "")

NewId == "c" \o ToString(Len(dbConvs) + 1)

Locals == <<userMessage, newMessages, convId, assistantMessage, textBuffer>>
Stream == <<rest, sent, lines, accepted, doneSeen>>
Panel  == <<messages, input, isLoading, currentConvId>>
Backend == <<user, dbConvs, dbMsgs>>
Host == <<conversationId, loads, propChanges>>

Init ==
    /\ messages = <<>>
    /\ input = ""
    /\ isLoading = FALSE
    /\ conversationId \in {None, ExistingConv}
    /\ currentConvId = conversationId
    /\ loads = {}
    /\ propChanges = 0
    /\ user \in {None, Principal}
    /\ dbConvs = <<[id |-> ExistingConv, user_id |-> Principal,
                    title |-> "Earlier chat"]>>
    /\ dbMsgs = <<>>
    /\ toasts = <<>>
    /\ logs = 0
    /\ pc = "idle"
    /\ userMessage = ""
    /\ newMessages = <<>>
    /\ convId = None
    /\ assistantMessage = ""
    /\ textBuffer = ""
    /\ rest = ""
    /\ sent = NoBody
    /\ lines = <<>>
    /\ accepted = <<>>
    /\ doneSeen = FALSE
    /\ error = ""
    /\ dbMark = 0
    /\ turn = 0

\* <Textarea onChange>: disabled while isLoading.
OnChange(Inputs) ==
    /\ UNCHANGED Host
    /\ ~isLoading
    /\ \E v \in Inputs : v # input /\ input' = v
    /\ UNCHANGED <<messages, isLoading, currentConvId, Backend, toasts, logs,
                   pc, Locals, Stream, error, dbMark, turn>>

\* Mutants: a conversation is created whatever id is held; the user message
\* is saved whatever createConversation returned.
NeedsConversation_Always(id) == TRUE

SaveTarget_Always(id) == "saveUser"

\* if (!convId) (line 116) and if (convId) (line 120): where the turn goes
\* with the identifier it holds.
NeedsConversation(id) == id = None

SaveTarget(id) == IF id # None THEN "saveUser" ELSE "fetch"

\* Mutant: setIsLoading(true) is left out.
LatchOn_Forgotten == FALSE

\* setIsLoading(true) (line 112).
LatchOn == TRUE

\* handleSend up to its first await (lines 104-118), called by the button's
\* onClick and by handleKeyPress on Enter (lines 188-193, 240-242).
HandleSend(maxTurns) ==
    /\ UNCHANGED Host
    /\ turn < maxTurns
    /\ Trim(input) # "" /\ ~isLoading
    /\ userMessage' = Trim(input)
    /\ input' = ""
    /\ newMessages' = Append(messages, UserMsg(Trim(input)))
    /\ messages' = Append(messages, UserMsg(Trim(input)))
    /\ isLoading' = LatchOn
    /\ convId' = currentConvId
    /\ pc' = IF NeedsConversation(currentConvId) THEN "create"
             ELSE SaveTarget(currentConvId)
    /\ turn' = turn + 1
    /\ dbMark' = Len(dbMsgs)
    /\ UNCHANGED <<currentConvId, Backend, toasts, logs, assistantMessage,
                   textBuffer, Stream, error>>

SignInToast == "Please sign in to save conversations"

\* createConversation (lines 62-88) and the test of its result (line 120).
CreateConversation ==
    /\ UNCHANGED Host
    /\ pc = "create"
    /\ IF user = None
       THEN /\ toasts' = Append(toasts, SignInToast)
            /\ convId' = None
            /\ pc' = SaveTarget(None)
            /\ UNCHANGED <<dbConvs, currentConvId, logs>>
       ELSE \E failed \in BOOLEAN :
            IF failed
            THEN /\ logs' = logs + 1
                 /\ convId' = None
                 /\ pc' = SaveTarget(None)
                 /\ UNCHANGED <<dbConvs, currentConvId, toasts>>
            ELSE /\ dbConvs' = Append(dbConvs, [id |-> NewId, user_id |-> user,
                                                title |-> Title(userMessage)])
                 /\ currentConvId' = NewId
                 /\ convId' = NewId
                 /\ pc' = SaveTarget(NewId)
                 /\ UNCHANGED <<toasts, logs>>
    /\ UNCHANGED <<messages, input, isLoading, user, dbMsgs, userMessage,
                   newMessages, assistantMessage, textBuffer, Stream, error,
                   dbMark, turn>>

\* Mutant: a rejected insert is thrown to the caller.
SaveMessage_Throws(id, role, content, next) ==
    \E failed \in BOOLEAN :
        IF failed
        THEN /\ error' = "Error saving message"
             /\ pc' = "catch"
             /\ UNCHANGED <<dbMsgs, logs, toasts>>
        ELSE /\ dbMsgs' = Append(dbMsgs, [conversation_id |-> id,
                                          role |-> role, content |-> content])
             /\ pc' = next
             /\ UNCHANGED <<logs, toasts, error>>

\* saveMessage (lines 90-102), awaited by handleSend, which goes on to next:
\* the insert is rejected, which is logged, or stores one row.
SaveMessage(id, role, content, next) ==
    /\ \E failed \in BOOLEAN :
        IF failed
        THEN logs' = logs + 1 /\ UNCHANGED dbMsgs
        ELSE /\ dbMsgs' = Append(dbMsgs, [conversation_id |-> id,
                                          role |-> role, content |-> content])
             /\ UNCHANGED logs
    /\ pc' = next
    /\ UNCHANGED <<toasts, error>>

\* await saveMessage(convId, 'user', userMessage) (lines 120-122).
SaveUser ==
    /\ UNCHANGED Host
    /\ pc = "saveUser"
    /\ SaveMessage(convId, "user", userMessage, "fetch")
    /\ UNCHANGED <<Panel, user, dbConvs, Locals, Stream, dbMark, turn>>

\* await fetch(...) and the test of the response (lines 124-142).
Fetch(Bodies) ==
    /\ UNCHANGED Host
    /\ pc = "fetch"
    /\ \/ /\ error' = "Failed to get response"
          /\ pc' = "catch"
          /\ UNCHANGED <<assistantMessage, textBuffer, rest, sent>>
       \/ \E b \in Bodies :
          /\ sent' = b
          /\ rest' = BodyText(b)
          /\ assistantMessage' = ""
          /\ textBuffer' = ""
          /\ pc' = "read"
          /\ UNCHANGED error
    /\ UNCHANGED <<Panel, Backend, toasts, logs, userMessage, newMessages,
                   convId, lines, accepted, doneSeen, dbMark, turn>>

\* The chunk lengths the transport may deliver next: every length when
\* step = 1, else the multiples of step and the whole remainder.
ChunkLengths(step) ==
    {n \in 1..Len(rest) : n = Len(rest) \/ n % step = 0}

\* Mutant: the carry-over buffer is dropped at each chunk.
ChunkInput_NoCarry(buf, chunk) == chunk

\* textBuffer += decoder.decode(value, { stream: true }) (line 148), on text.
ChunkInput(buf, chunk) == buf \o chunk

\* One iteration of the outer loop that receives a chunk (lines 144-174).
ReadChunk(step) ==
    /\ UNCHANGED Host
    /\ pc = "read"
    /\ rest # ""
    /\ \E n \in ChunkLengths(step) :
         LET chunk == Slice(rest, 0, n)
             st == ProcessLines([buf |-> ChunkInput(textBuffer, chunk),
                                 asst |-> assistantMessage,
                                 msgs |-> messages,
                                 lines |-> lines,
                                 accepted |-> accepted,
                                 done |-> doneSeen], newMessages)
         IN /\ rest' = SliceFrom(rest, n)
            /\ textBuffer' = st.buf
            /\ assistantMessage' = st.asst
            /\ messages' = st.msgs
            /\ lines' = st.lines
            /\ accepted' = st.accepted
            /\ doneSeen' = st.done
    /\ UNCHANGED <<input, isLoading, currentConvId, Backend, toasts, logs, pc,
                   userMessage, newMessages, convId, sent, error, dbMark,
                   turn>>

\* Mutant: the test of line 176 without its second operand.
AfterStream_AnyText(id, text) == IF id # None THEN "saveAsst" ELSE "finally"

\* if (convId && assistantMessage) (line 176).
AfterStream(id, text) == IF id # None /\ text # "" THEN "saveAsst" ELSE "finally"

\* The iteration whose read reports done (line 146), and line 176.
ReadDone ==
    /\ UNCHANGED Host
    /\ pc = "read"
    /\ rest = ""
    /\ pc' = AfterStream(convId, assistantMessage)
    /\ UNCHANGED <<Panel, Backend, toasts, logs, Locals, Stream, error,
                   dbMark, turn>>

\* reader.read() rejects (line 145).
ReadError ==
    /\ UNCHANGED Host
    /\ pc = "read"
    /\ error' = "network error"
    /\ pc' = "catch"
    /\ UNCHANGED <<Panel, Backend, toasts, logs, Locals, Stream, dbMark, turn>>

\* await saveMessage(convId, 'assistant', assistantMessage) (lines 176-178).
SaveAssistant ==
    /\ UNCHANGED Host
    /\ pc = "saveAsst"
    /\ SaveMessage(convId, "assistant", assistantMessage, "finally")
    /\ UNCHANGED <<Panel, user, dbConvs, Locals, Stream, dbMark, turn>>

\* Mutant: the catch block stores the text assembled before the failure.
Catch_SavesPartial ==
    /\ UNCHANGED Host
    /\ pc = "catch"
    /\ logs' = logs + 1
    /\ toasts' = Append(toasts, IF error # "" THEN error
                                ELSE "Failed to get response")
    /\ dbMsgs' = IF convId # None /\ assistantMessage # ""
                 THEN Append(dbMsgs, [conversation_id |-> convId,
                                      role |-> "assistant",
                                      content |-> assistantMessage])
                 ELSE dbMsgs
    /\ pc' = "finally"
    /\ UNCHANGED <<Panel, user, dbConvs, Locals, Stream, error, dbMark, turn>>

\* The catch block (lines 180-182).
Catch ==
    /\ UNCHANGED Host
    /\ pc = "catch"
    /\ logs' = logs + 1
    /\ toasts' = Append(toasts, IF error # "" THEN error
                                ELSE "Failed to get response")
    /\ pc' = "finally"
    /\ UNCHANGED <<Panel, Backend, Locals, Stream, error, dbMark, turn>>

\* Mutant: setIsLoading(false) as the last statement of the try block, which
\* a throw skips.
LatchOff_OnSuccessOnly(err) == err # ""

\* setIsLoading(false) in the finally block (line 184), whatever the error.
LatchOff(err) == FALSE

\* The finally block (lines 183-185); the locals go out of scope.
Finally ==
    /\ UNCHANGED Host
    /\ pc = "finally"
    /\ isLoading' = LatchOff(error)
    /\ pc' = "idle"
    /\ userMessage' = ""
    /\ newMessages' = <<>>
    /\ convId' = None
    /\ assistantMessage' = ""
    /\ textBuffer' = ""
    /\ rest' = ""
    /\ sent' = NoBody
    /\ lines' = <<>>
    /\ accepted' = <<>>
    /\ doneSeen' = FALSE
    /\ error' = ""
    /\ UNCHANGED <<messages, input, currentConvId, Backend, toasts, logs,
                   dbMark, turn>>

\* The ids the parent may pass as the conversationId prop: none, or one of
\* the stored conversations.
PropValues == {None} \cup {dbConvs[i].id : i \in DOMAIN dbConvs}

\* Mutant: the held id is re-seeded from the prop at every render.
HeldAfterRender_FollowsProp(held, prop) == prop

\* useState(conversationId) (line 23): the argument seeds the state at mount
\* only; a later render returns the state held.
HeldAfterRender(held, prop) == held

\* The parent renders the panel with another conversationId; the effect of
\* lines 34-38 runs and calls loadConversation for a truthy id.
PropChange ==
    /\ propChanges < MaxPropChanges
    /\ propChanges' = propChanges + 1
    /\ \E v \in PropValues \ {conversationId} :
         /\ conversationId' = v
         /\ currentConvId' = HeldAfterRender(currentConvId, v)
         /\ loads' = IF v # None THEN loads \cup {v} ELSE loads
    /\ UNCHANGED <<messages, input, isLoading, Backend, toasts, logs, pc,
                   Locals, Stream, error, dbMark, turn>>

\* The stored messages of conversation id, in order, as display entries
\* (lines 42-53).
Transcript(id) ==
    LET IsOf(r) == r.conversation_id = id
        rows == SelectSeq(dbMsgs, IsOf)
    IN [i \in 1..Len(rows) |->
          [role |-> rows[i].role, content |-> rows[i].content]]

LoadFailedToast == "Failed to load conversation"

\* A pending loadConversation (lines 40-60) settles: its select fails, which
\* is logged and notified, or its rows replace the message list.
LoadConversation ==
    /\ \E id \in loads :
         /\ loads' = loads \ {id}
         /\ \E failed \in BOOLEAN :
              IF failed
              THEN /\ logs' = logs + 1
                   /\ toasts' = Append(toasts, LoadFailedToast)
                   /\ UNCHANGED messages
              ELSE /\ messages' = Transcript(id)
                   /\ UNCHANGED <<logs, toasts>>
    /\ UNCHANGED <<input, isLoading, currentConvId, Backend, pc, Locals,
                   Stream, error, dbMark, turn, conversationId, propChanges>>

Next ==
    \/ OnChange(PanelInputs)
    \/ HandleSend(MaxTurns)
    \/ CreateConversation
    \/ SaveUser
    \/ Fetch(PanelBodies)
    \/ ReadChunk(PanelChunk)
    \/ ReadDone
    \/ ReadError
    \/ SaveAssistant
    \/ Catch
    \/ Finally

Spec == Init /\ [][Next]_vars

\* The continuations of handleSend's awaits other than a read that delivers
\* a chunk, and its catch and finally blocks.
TurnStep ==
    \/ CreateConversation
    \/ SaveUser
    \/ Fetch(PanelBodies)
    \/ ReadDone
    \/ SaveAssistant
    \/ Catch
    \/ Finally

\* await reader.read() resolves with a chunk (line 145): the step of
\* ReadChunk(PanelChunk), told by what it takes from the body.
ChunkDelivered ==
    /\ pc = "read"
    /\ rest # ""
    /\ \E n \in ChunkLengths(PanelChunk) : rest' = SliceFrom(rest, n)

\* Weak fairness of ReadChunk(PanelChunk), written out as the definition of
\* WF with the guard of the action for its enabling condition.
ChunkFair ==
    \/ []<>(~(pc = "read" /\ rest # ""))
    \/ []<><<ChunkDelivered>>_vars

\* The panel when every awaited operation settles and the reader goes on
\* delivering: a turn in flight is not left waiting for ever.
SpecLive == Init /\ [][Next]_vars /\ WF_vars(TurnStep) /\ ChunkFair

\* The read loop under every chunking of every body of StreamBodies, in one
\* turn of a panel mounted signed out and without a conversation (where
\* SaveUser and SaveAssistant are never enabled).
InitStream == Init /\ user = None /\ currentConvId = None

NextStream ==
    \/ OnChange({"What are my rights?"})
    \/ HandleSend(1)
    \/ CreateConversation
    \/ Fetch(StreamBodies)
    \/ ReadChunk(1)
    \/ ReadDone
    \/ ReadError
    \/ Catch
    \/ Finally

SpecStream == InitStream /\ [][NextStream]_vars

\* The panel of a signed-in user under a parent that changes the
\* conversationId prop, with the answer of PanelBodies that carries deltas and
\* a reader that does not reject (a failed request still reaches the catch
\* block).
InitProp == Init /\ user = Principal

AnswerBodies == {b \in PanelBodies : \E i \in 1..Len(b.frames) :
                                      b.frames[i].k = "delta"}

NextProp ==
    \/ OnChange({"What are my rights?"})
    \/ HandleSend(MaxTurns)
    \/ CreateConversation
    \/ SaveUser
    \/ Fetch(AnswerBodies)
    \/ ReadChunk(PanelChunk)
    \/ ReadDone
    \/ SaveAssistant
    \/ Catch
    \/ Finally
    \/ PropChange
    \/ LoadConversation

SpecProp == InitProp /\ [][NextProp]_vars

\* One turn for every seed message of TitleInputs.
NextTitle ==
    \/ OnChange(TitleInputs)
    \/ HandleSend(1)
    \/ CreateConversation
    \/ SaveUser
    \/ Fetch(PanelBodies)
    \/ ReadChunk(PanelChunk)
    \/ ReadDone
    \/ ReadError
    \/ SaveAssistant
    \/ Catch
    \/ Finally

SpecTitle == Init /\ [][NextTitle]_vars

----------------------------------------------------------------------------
(* Reference definitions for the properties *)

RECURSIVE Flatten(_)
Flatten(ss) == IF ss = <<>> THEN "" ELSE Head(ss) \o Flatten(Tail(ss))

IsDelta(f) == f.k = "delta" /\ f.c # ""

\* The contents of the content deltas of a frame sequence, in order.
DeltaContents(fs) ==
    LET ds == SelectSeq(fs, IsDelta) IN [i \in 1..Len(ds) |-> ds[i].c]

\* N >= 1 content deltas followed by [DONE], blank separator lines apart.
IsBlankFrame(f) == f.k = "blank"
NotBlankFrame(f) == ~IsBlankFrame(f)

WellFormed(b) ==
    LET fs == SelectSeq(b.frames, NotBlankFrame) IN
    /\ b.trailer = ""
    /\ Len(fs) >= 2
    /\ fs[Len(fs)].k = "done"
    /\ \A i \in 1..(Len(fs) - 1) : IsDelta(fs[i])

\* The complete LF-terminated lines of a text, one trailing CR stripped.
RECURSIVE RefLines(_)
RefLines(text) ==
    LET i == IndexOf(text, LF)
        l == Slice(text, 0, i)
    IN IF i = -1 THEN <<>>
       ELSE <<IF EndsWith(l, CR) THEN Slice(l, 0, Len(l) - 1) ELSE l>>
                \o RefLines(SliceFrom(text, i + 1))

\* The frames that precede the first [DONE] frame.
BeforeDone(fs) ==
    LET ds == {i \in 1..Len(fs) : fs[i].k = "done"}
        first == CHOOSE i \in ds : \A j \in ds : i <= j
    IN IF ds = {} THEN fs ELSE SubSeq(fs, 1, first - 1)

\* The read loop has ended by the reader reporting done.
StreamEnded == pc \in {"saveAsst", "finally"} /\ error = ""

\* What the display shows for an assistant text t in the turn in flight.
Displayed(t) ==
    IF t = "" THEN newMessages ELSE Append(newMessages, AssistantMsg(t))

\* The rows of chat_messages stored since the turn began.
SavedThisTurn == SubSeq(dbMsgs, dbMark + 1, Len(dbMsgs))

IsAssistantRow(r) == r.role = "assistant"

IsPrefix(a, b) == Len(a) <= Len(b) /\ SubSeq(b, 1, Len(a)) = a

----------------------------------------------------------------------------
(* Properties *)

\* C1: for a body of N well-formed data lines with non-empty deltas followed
\* by data: [DONE], under every chunking, the assistant message displayed when
\* the read loop ends is the concatenation of the N deltas in stream order.
C1_FinalSnapshot ==
    (StreamEnded /\ WellFormed(sent)) =>
        /\ assistantMessage = Flatten(DeltaContents(sent.frames))
        /\ messages = Append(newMessages,
                             AssistantMsg(Flatten(DeltaContents(sent.frames))))

C1_Witness ==
    /\ StreamEnded
    /\ sent.frames = <<Delta("a"), Delta("b"), Frame("done")>>
    /\ messages = Append(newMessages, AssistantMsg("ab"))

\* C2: every chunking of a fixed text makes the read loop extract the same
\* sequence of complete lines, namely the LF-terminated lines of the text with
\* one trailing CR stripped.
C2_ChunkInvariance ==
    StreamEnded => lines = RefLines(BodyText(sent))

\* C4: once a data: [DONE] line has been read, no line that follows it adds
\* content to the assistant message: the accepted deltas are those of the frames
\* before [DONE].
C4_NothingAfterDone ==
    (pc = "read" /\ doneSeen) =>
        accepted = DeltaContents(BeforeDone(sent.frames))

\* C3: in every turn at most one assistant message is persisted, only after
\* the stream has ended, with the final accumulator, which is the concatenation
\* of the accepted deltas, as its content; a stream that ends with zero accepted
\* deltas persists no assistant message and raises no error.
C3_Rows == SelectSeq(SavedThisTurn, IsAssistantRow)

C3_AssistantPersisted ==
    /\ [](/\ Len(C3_Rows) <= 1
          /\ (C3_Rows # <<>> /\ pc # "idle") =>
                /\ pc = "finally" /\ error = "" /\ rest = ""
                /\ C3_Rows[1].content = assistantMessage
                /\ assistantMessage = Flatten(accepted)
                /\ accepted # <<>>)
    /\ [][/\ (pc = "read" /\ pc' \notin {"read", "catch"} /\ accepted = <<>>) =>
                /\ pc' = "finally"
                /\ error' = "" /\ toasts' = toasts /\ logs' = logs
                /\ dbMsgs' = dbMsgs
          /\ (pc = "finally" /\ error = "") =>
                (toasts' = toasts /\ logs' = logs /\ dbMsgs' = dbMsgs)]_vars

C3_Witness ==
    /\ pc = "finally"
    /\ error = ""
    /\ Len(accepted) = 2
    /\ C3_Rows = <<[conversation_id |-> convId, role |-> "assistant",
                    content |-> "You have the right to remain silent."]>>

\* C5: after each accepted delta the display is the messages shown when the
\* turn began, then the turn's user message, then one assistant message holding
\* the concatenation of the deltas accepted so far, which extends the assistant
\* text shown before.
ShownAssistant ==
    IF Len(messages) = Len(newMessages) + 1
    THEN messages[Len(messages)].content ELSE ""

C5_Snapshots ==
    [][/\ (turn' # turn) =>
            /\ newMessages' = Append(messages, UserMsg(userMessage'))
            /\ messages' = newMessages'
       /\ (pc # "idle" /\ pc' # "idle") => newMessages' = newMessages
       /\ (accepted' # accepted /\ pc' = "read") =>
            /\ messages' = Append(newMessages,
                                  AssistantMsg(Flatten(accepted')))
            /\ IsPrefix(ShownAssistant, ShownAssistant')
            /\ Len(ShownAssistant) < Len(ShownAssistant')]_vars

C5_Witness ==
    /\ pc = "read"
    /\ turn = 2
    /\ Len(newMessages) = 3
    /\ accepted = <<"You have ", "the right to remain silent.">>
    /\ messages = Append(newMessages,
                         AssistantMsg("You have the right to remain silent."))

\* C6: a send made while the panel holds a conversation id creates no
\* conversation record and uses that id unchanged, send after send; a record is
\* created only by a send made while no id is held.
C6_HeldIdReused ==
    /\ []((pc \notin {"idle", "create"} /\ currentConvId # None) =>
             convId = currentConvId)
    /\ [][/\ (currentConvId # None) =>
                (currentConvId' = currentConvId /\ dbConvs' = dbConvs)
          /\ (dbConvs' # dbConvs) => (pc = "create" /\ currentConvId = None)
          /\ (turn' # turn /\ currentConvId # None) =>
                (pc' = "saveUser" /\ convId' = currentConvId)]_vars

C6_Witness ==
    /\ turn = 2
    /\ pc = "saveUser"
    /\ convId = "c2"
    /\ currentConvId = "c2"
    /\ Len(dbConvs) = 2

\* C7: the title of a created conversation is the seed message itself when it
\* has at most 50 characters, else its first 50 characters followed by "...".
C7_Created == dbConvs[Len(dbConvs)]

C7_Title ==
    (pc = "saveUser" /\ convId # ExistingConv) =>
        /\ C7_Created.id = convId
        /\ Len(userMessage) <= 50 => C7_Created.title = userMessage
        /\ Len(userMessage) > 50 =>
             /\ Len(C7_Created.title) = 53
             /\ SubSeq(C7_Created.title, 1, 50) = SubSeq(userMessage, 1, 50)
             /\ SubSeq(C7_Created.title, 51, 53) = "..."
        /\ userMessage = "Hello" => C7_Created.title = "Hello"
        /\ userMessage = XS(60) => C7_Created.title = XS(50) \o "..."

C7_Witness ==
    /\ pc = "saveUser"
    /\ convId # ExistingConv
    /\ userMessage = XS(60)
    /\ C7_Created.title = XS(50) \o "..."

\* C8: signed out and without a conversation id, createConversation returns no
\* id and creates no record, the turn persists neither message, and it still
\* sends the request, consumes the stream and displays the assembled message.
C8_MemoryOnly ==
    /\ []((user = None /\ convId = None /\ pc \notin {"idle", "create"}) =>
            /\ SavedThisTurn = <<>>
            /\ pc \notin {"saveUser", "saveAsst"}
            /\ StreamEnded =>
                 /\ rest = ""
                 /\ messages = Displayed(Flatten(DeltaContents(sent.frames))))
    /\ [][(pc = "create" /\ user = None) =>
            /\ convId' = None /\ currentConvId' = None
            /\ dbConvs' = dbConvs
            /\ pc' = "fetch"]_vars

C8_Witness ==
    /\ user = None
    /\ convId = None
    /\ pc = "finally"
    /\ error = ""
    /\ dbMsgs = <<>>
    /\ Len(dbConvs) = 1
    /\ messages = Append(newMessages,
                         AssistantMsg("You have the right to remain silent."))

\* C9: with no authenticated principal the sign-in notification is emitted at
\* most once in a panel, however many messages are sent.
C9_SignInOnce ==
    Cardinality({i \in DOMAIN toasts : toasts[i] = SignInToast}) <= 1

\* C10: a rejected save is logged and swallowed: it raises no notification and
\* no exception, the turn goes on, and the final display of a turn with failed
\* saves is the one the stream determines.
C10_SaveFailed ==
    /\ convId # None
    /\ Len(SavedThisTurn) < 1 + (IF assistantMessage # "" THEN 1 ELSE 0)

C10_SaveFailureSwallowed ==
    /\ []((pc = "finally" /\ error = "" /\ C10_SaveFailed) =>
            messages = Displayed(Flatten(DeltaContents(sent.frames))))
    /\ [][(pc \in {"saveUser", "saveAsst"} /\ dbMsgs' = dbMsgs) =>
            /\ logs' = logs + 1
            /\ toasts' = toasts /\ error' = ""
            /\ messages' = messages /\ isLoading' = isLoading
            /\ pc' = (IF pc = "saveUser" THEN "fetch" ELSE "finally")]_vars

C10_Witness ==
    /\ pc = "finally"
    /\ error = ""
    /\ convId # None
    /\ SavedThisTurn = <<>>
    /\ logs >= 2
    /\ toasts = <<>>
    /\ messages = Append(newMessages,
                         AssistantMsg("You have the right to remain silent."))

\* C11: when the response is not a success or has no body, or a read of the
\* body fails, also after deltas were accepted, the turn is abandoned: its
\* catch block emits exactly one error notification, nothing more is read or
\* stored, the turn ends, and no assistant row of the turn is ever stored.
C11_Failed == pc = "catch" \/ (pc = "finally" /\ error # "")

C11_TransportFailure ==
    /\ [](C11_Failed =>
            \A i \in DOMAIN SavedThisTurn : ~IsAssistantRow(SavedThisTurn[i]))
    /\ [][(pc # "catch" /\ pc' = "catch") =>
            /\ pc \in {"fetch", "read"}
            /\ error' # ""
            /\ toasts' = toasts /\ dbMsgs' = dbMsgs]_vars
    /\ [][pc = "catch" =>
            /\ toasts' = Append(toasts, error)
            /\ dbMsgs' = dbMsgs /\ rest' = rest
            /\ pc' = "finally"]_vars
    /\ [][(pc = "finally" /\ error # "") =>
            /\ toasts' = toasts /\ dbMsgs' = dbMsgs
            /\ pc' = "idle" /\ ~isLoading']_vars

C11_Witness ==
    /\ pc = "finally"
    /\ error = "network error"
    /\ assistantMessage = "You have "
    /\ messages = Append(newMessages, AssistantMsg("You have "))
    /\ convId # None
    /\ SavedThisTurn = <<[conversation_id |-> convId, role |-> "user",
                          content |-> userMessage]>>
    /\ toasts = <<"network error">>

\* C12: a panel has at most one send outstanding. A turn in flight holds
\* isLoading, and while isLoading is set no call of handleSend, from the
\* button or from Enter, begins a turn, issues a request or touches the
\* message list: the list then changes only by the deltas of the turn in
\* flight.
C12_OneOutstanding ==
    /\ [](pc # "idle" => isLoading)
    /\ [][turn' # turn => (~isLoading /\ pc = "idle")]_vars
    /\ [][isLoading =>
            /\ (pc # "finally" =>
                   userMessage' = userMessage /\ newMessages' = newMessages)
            /\ (pc \notin {"fetch", "finally"} => sent' = sent)
            /\ (messages' # messages => pc = "read")]_vars

C12_Witness ==
    /\ turn = 2
    /\ pc = "read"
    /\ isLoading
    /\ input = ""
    /\ messages = Append(newMessages, AssistantMsg("You have "))

\* C13: a data: line whose payload fails to parse is neither raised to the
\* user nor lost: when the stream has ended without an error, the deltas of
\* the frames before [DONE], those after a malformed line included, have all
\* been accepted, in order.
HasMalformed(fs) == \E i \in 1..Len(fs) : fs[i].k = "bad"

C13_NoSilentLoss ==
    (StreamEnded /\ HasMalformed(sent.frames)) =>
        /\ toasts = <<SignInToast>>
        /\ IsPrefix(DeltaContents(BeforeDone(sent.frames)), accepted)

\* C14: only a data: [DONE] line completes a stream: a turn whose reader was
\* exhausted without [DONE] having been read ends as a failure, with an error
\* that tells it from a completed stream. Stated for the streams that
\* delivered content, where a cut-off stream would pass for a complete answer.
C14_DoneCompletes ==
    (pc \in {"saveAsst", "finally"} /\ ~doneSeen /\ accepted # <<>>) =>
        error # ""

\* C15: when every awaited operation settles and the stream ends, every turn
\* that passed the guard of handleSend releases isLoading in the end, whether
\* it succeeded, lost its saves, failed in transport or threw.
C15_LatchReleased == isLoading ~> ~isLoading

C15_Witness ==
    /\ pc = "idle"
    /\ ~isLoading
    /\ turn = 1
    /\ toasts = <<"Failed to get response">>

====
